---- MODULE Spec2Model ----
(***************************************************************************)
(* Model of zrender's core/BoundingRect.ts: the BoundingRect class, the    *)
(* module-level scratch points it shares between calls, and the Point and  *)
(* matrix helpers it calls.                                                *)
(*                                                                         *)
(* A JavaScript number is modelled as an exact rational <<n, d>> in lowest *)
(* terms with d > 0 (Infinity is <<1, 0>>); NaN and floating-point         *)
(* rounding are outside the model.                                         *)
(***************************************************************************)
EXTENDS Integers, Sequences, FiniteSets, TLC

(***************************************************************************)
(* Bounds of the model.                                                    *)
(***************************************************************************)
\* x and y arguments of constructors and rect-like literals lie in 0..MaxPos
MaxPos == 1
\* width and height arguments are -1, 0 or MaxExt
MaxExt == 2
\* number of calls in a sequence of calls (specification Spec)
MaxCalls == 2
\* number of calls in a sequence of calls (specification SeqSpec)
MaxSeqCalls == 3

\* the caller's rect objects
RectIds == {"r1", "r2"}

(***************************************************************************)
(* Numbers.                                                                *)
(***************************************************************************)
RECURSIVE GCD(_, _)
GCD(a, b) == IF b = 0 THEN a ELSE GCD(b, a % b)

IAbs(i) == IF i < 0 THEN 0 - i ELSE i

\* the rational n/d in lowest terms, d # 0
Rat(n, d) ==
    LET g == GCD(IAbs(n), IAbs(d))
        s == IF d < 0 THEN 0 - 1 ELSE 1
    IN  <<(s * n) \div g, (s * d) \div g>>

Num(i) == <<i, 1>>
Zero == Num(0)
One == Num(1)
Infinity == <<1, 0>>
\* the literal 1e-5 of the fast-path test
Epsilon == <<1, 100000>>

Add(p, q) ==
    IF p[2] = 1 /\ q[2] = 1 THEN <<p[1] + q[1], 1>>
    ELSE Rat(p[1] * q[2] + q[1] * p[2], p[2] * q[2])
Neg(p) == <<0 - p[1], p[2]>>
Sub(p, q) == Add(p, Neg(q))
Mul(p, q) ==
    IF p[2] = 1 /\ q[2] = 1 THEN <<p[1] * q[1], 1>>
    ELSE Rat(p[1] * q[1], p[2] * q[2])
\* p / q for q # 0
Div(p, q) == Rat(p[1] * q[2], p[2] * q[1])
Lt(p, q) == p[1] * q[2] < q[1] * p[2]
Le(p, q) == p[1] * q[2] <= q[1] * p[2]
Gt(p, q) == Lt(q, p)
Abs(p) == <<IAbs(p[1]), p[2]>>
mathMin(p, q) == IF Lt(q, p) THEN q ELSE p
mathMax(p, q) == IF Lt(p, q) THEN q ELSE p
mathMin4(p, q, r, s) == mathMin(mathMin(p, q), mathMin(r, s))
mathMax4(p, q, r, s) == mathMax(mathMax(p, q), mathMax(r, s))

(***************************************************************************)
(* Point and matrix collaborators.                                         *)
(***************************************************************************)
Point(px, py) == [x |-> px, y |-> py]
NewPoint == Point(Zero, Zero)

\* Point.set(p, x, y)
PointSet(p, px, py) == [p EXCEPT !.x = px, !.y = py]
\* Point.copy(p, p2)
PointCopy(p, p2) == [p EXCEPT !.x = p2.x, !.y = p2.y]

\* m[k] with the source's 0-based index
At(m, k) == m[k + 1]

\* Point.prototype.transform(m): x' = a*x + c*y + tx, y' = b*x + d*y + ty
PointTransform(p, m) ==
    [x |-> Add(Add(Mul(At(m, 0), p.x), Mul(At(m, 2), p.y)), At(m, 4)),
     y |-> Add(Add(Mul(At(m, 1), p.x), Mul(At(m, 3), p.y)), At(m, 5))]

\* matrix.create(): the identity
MatrixCreate == <<One, Zero, Zero, One, Zero, Zero>>

\* matrix.translate(out, m, v): the translation by v applied after m
MatrixTranslate(m, v) ==
    <<At(m, 0), At(m, 1), At(m, 2), At(m, 3), Add(At(m, 4), v[1]), Add(At(m, 5), v[2])>>

\* matrix.scale(out, m, v): the scaling by v applied after m
MatrixScale(m, v) ==
    <<Mul(At(m, 0), v[1]), Mul(At(m, 1), v[2]), Mul(At(m, 2), v[1]),
      Mul(At(m, 3), v[2]), Mul(At(m, 4), v[1]), Mul(At(m, 5), v[2])>>

\* a falsy matrix argument (null / undefined)
NoMatrix == <<>>

(***************************************************************************)
(* BoundingRect.                                                           *)
(***************************************************************************)
RectLike(px, py, w, h) == [x |-> px, y |-> py, width |-> w, height |-> h]

\* the constructor negating negative extents without moving the origin
BoundingRect_NoOriginShift(px, py, w, h) ==
    RectLike(px, py, IF Lt(w, Zero) THEN Neg(w) ELSE w, IF Lt(h, Zero) THEN Neg(h) ELSE h)

\* constructor(x, y, width, height)
BoundingRect(px, py, w, h) ==
    LET x1 == IF Lt(w, Zero) THEN Add(px, w) ELSE px
        w1 == IF Lt(w, Zero) THEN Neg(w) ELSE w
        y1 == IF Lt(h, Zero) THEN Add(py, h) ELSE py
        h1 == IF Lt(h, Zero) THEN Neg(h) ELSE h
    IN  RectLike(x1, y1, w1, h1)

\* static create(rect)
create(rect) == BoundingRect(rect.x, rect.y, rect.width, rect.height)

\* union assigning this.x and this.y before the extents are computed
union_OriginFirst(this, other) ==
    LET x == mathMin(other.x, this.x)
        y == mathMin(other.y, this.y)
        w == Sub(mathMax(Add(other.x, other.width), Add(x, this.width)), x)
        h == Sub(mathMax(Add(other.y, other.height), Add(y, this.height)), y)
    IN  RectLike(x, y, w, h)

\* union(other): the fields of `this` after the call
union(this, other) ==
    LET x == mathMin(other.x, this.x)
        y == mathMin(other.y, this.y)
        w == Sub(mathMax(Add(other.x, other.width), Add(this.x, this.width)), x)
        h == Sub(mathMax(Add(other.y, other.height), Add(this.y, this.height)), y)
    IN  RectLike(x, y, w, h)

\* copy(other): the fields of `this` after the call
copy(this, other) ==
    [this EXCEPT !.x = other.x, !.y = other.y,
                 !.width = other.width, !.height = other.height]

\* calculateTransform scaling before it moves a to the origin
calculateTransform_ScaleFirst(a, b) ==
    LET sx == Div(b.width, a.width)
        sy == Div(b.height, a.height)
        m0 == MatrixCreate
        m1 == MatrixScale(m0, <<sx, sy>>)
        m2 == MatrixTranslate(m1, <<Neg(a.x), Neg(a.y)>>)
        m3 == MatrixTranslate(m2, <<b.x, b.y>>)
    IN  m3

\* calculateTransform(b) called on a
calculateTransform(a, b) ==
    LET sx == Div(b.width, a.width)
        sy == Div(b.height, a.height)
        m0 == MatrixCreate
        m1 == MatrixTranslate(m0, <<Neg(a.x), Neg(a.y)>>)
        m2 == MatrixScale(m1, <<sx, sy>>)
        m3 == MatrixTranslate(m2, <<b.x, b.y>>)
    IN  m3

\* the test guarding the fast path of static applyTransform
IsFastPath(m) == Lt(At(m, 1), Epsilon) /\ Lt(At(m, 2), Epsilon)

\* fast path of static applyTransform: the fields written to target
FastPath(source, m) ==
    LET sx == At(m, 0)
        sy == At(m, 3)
        tx == At(m, 4)
        ty == At(m, 5)
    IN  RectLike(Add(Mul(source.x, sx), tx), Add(Mul(source.y, sy), ty),
                 Mul(source.width, sx), Mul(source.height, sy))

\* general path of static applyTransform: the scratch points lt0, rb0, lb0,
\* rt0 as the previous call left them, then as this call leaves them, and
\* the fields written to target
GeneralPath(source, m, lt0, rb0, lb0, rt0) ==
    LET \* lt.x = lb.x = source.x
        ltA == [lt0 EXCEPT !.x = source.x]
        lbA == [lb0 EXCEPT !.x = source.x]
        \* lt.y = rt.y = source.y
        ltB == [ltA EXCEPT !.y = source.y]
        rtA == [rt0 EXCEPT !.y = source.y]
        \* rb.x = rt.x = source.x + source.width
        rbA == [rb0 EXCEPT !.x = Add(source.x, source.width)]
        rtB == [rtA EXCEPT !.x = Add(source.x, source.width)]
        \* rb.y = lb.y = source.y + source.height
        rbB == [rbA EXCEPT !.y = Add(source.y, source.height)]
        lbB == [lbA EXCEPT !.y = Add(source.y, source.height)]
        lt1 == PointTransform(ltB, m)
        rt1 == PointTransform(rtB, m)
        rb1 == PointTransform(rbB, m)
        lb1 == PointTransform(lbB, m)
        tx == mathMin4(lt1.x, rb1.x, lb1.x, rt1.x)
        ty == mathMin4(lt1.y, rb1.y, lb1.y, rt1.y)
        maxX == mathMax4(lt1.x, rb1.x, lb1.x, rt1.x)
        maxY == mathMax4(lt1.y, rb1.y, lb1.y, rt1.y)
    IN  [lt |-> lt1, rt |-> rt1, rb |-> rb1, lb |-> lb1,
         rect |-> RectLike(tx, ty, Sub(maxX, tx), Sub(maxY, ty))]

\* the overlap test with <= for <, so that touching rects do not overlap
Overlap_TouchingApart(ax0, ax1, ay0, ay1, bx0, bx1, by0, by1) ==
    ~(Le(ax1, bx0) \/ Le(bx1, ax0) \/ Le(ay1, by0) \/ Le(by1, ay0))

\* the overlap test of intersect
Overlap(ax0, ax1, ay0, ay1, bx0, bx1, by0, by1) ==
    ~(Lt(ax1, bx0) \/ Lt(bx1, ax0) \/ Lt(ay1, by0) \/ Lt(by1, ay0))

\* intersect(b, mtv) called on a, b already a BoundingRect; minTv0, maxTv0
\* and mtv0 are the scratch points and the caller's point before the call
intersect(a, b, hasMtv, minTv0, maxTv0, mtv0) ==
    LET ax0 == a.x
        ax1 == Add(a.x, a.width)
        ay0 == a.y
        ay1 == Add(a.y, a.height)
        bx0 == b.x
        bx1 == Add(b.x, b.width)
        by0 == b.y
        by1 == Add(b.y, b.height)
        overlap == Overlap(ax0, ax1, ay0, ay1, bx0, bx1, by0, by1)
        dMin0 == Infinity
        dMax0 == Zero
        d0 == Abs(Sub(ax1, bx0))
        d1 == Abs(Sub(bx1, ax0))
        d2 == Abs(Sub(ay1, by0))
        d3 == Abs(Sub(by1, ay0))
        dx == mathMin(d0, d1)
        dy == mathMin(d2, d3)
        \* on x axis
        xSep == Lt(ax1, bx0) \/ Lt(bx1, ax0)
        xMax == xSep /\ Gt(dx, dMax0)
        xMin == ~xSep /\ Lt(dx, dMin0)
        dMax1 == IF xMax THEN dx ELSE dMax0
        dMin1 == IF xMin THEN dx ELSE dMin0
        maxTv1 == IF xMax
                  THEN IF Lt(d0, d1) THEN PointSet(maxTv0, Neg(d0), Zero)
                                     ELSE PointSet(maxTv0, d1, Zero)
                  ELSE maxTv0
        minTv1 == IF xMin
                  THEN IF Lt(d0, d1) THEN PointSet(minTv0, d0, Zero)
                                     ELSE PointSet(minTv0, Neg(d1), Zero)
                  ELSE minTv0
        \* on y axis
        ySep == Lt(ay1, by0) \/ Lt(by1, ay0)
        yMax == ySep /\ Gt(dy, dMax1)
        yMin == ~ySep /\ Lt(dx, dMin1)
        maxTv2 == IF yMax
                  THEN IF Lt(d2, d3) THEN PointSet(maxTv1, Zero, Neg(d2))
                                     ELSE PointSet(maxTv1, Zero, d3)
                  ELSE maxTv1
        minTv2 == IF yMin
                  THEN IF Lt(d2, d3) THEN PointSet(minTv1, Zero, d2)
                                     ELSE PointSet(minTv1, Zero, Neg(d3))
                  ELSE minTv1
    IN  IF hasMtv
        THEN [ret |-> overlap, minTv |-> minTv2, maxTv |-> maxTv2,
              mtv |-> PointCopy(mtv0, IF overlap THEN minTv2 ELSE maxTv2)]
        ELSE [ret |-> overlap, minTv |-> minTv0, maxTv |-> maxTv0, mtv |-> mtv0]

\* contain(x, y) called on rect
contain(rect, px, py) ==
    /\ Le(rect.x, px)
    /\ Le(px, Add(rect.x, rect.width))
    /\ Le(rect.y, py)
    /\ Le(py, Add(rect.y, rect.height))

(***************************************************************************)
(* Inputs.                                                                 *)
(***************************************************************************)
Pos == 0..MaxPos
Ext == {0 - 1, 0, MaxExt}

\* the rect-like literals callers build rects from
RectLikes ==
    {RectLike(Num(px), Num(py), Num(w), Num(h)) : px \in Pos, py \in Pos, w \in Ext, h \in Ext}

\* the few literals the sequences of calls start from
SeqRectLikes ==
    {RectLike(Num(px), Zero, Num(w), One) : px \in {0, 2}, w \in {0, 1}}

\* the matrices callers pass: scale and translate, mirror, quarter-turn,
\* negative shear, and no matrix at all
ScaleTranslate == <<Num(2), Zero, Zero, Num(3), One, Num(0 - 1)>>
MirrorX == <<Num(0 - 1), Zero, Zero, One, Zero, Zero>>
QuarterTurn == <<Zero, One, Num(0 - 1), Zero, Zero, Zero>>
ShearNeg == <<One, Num(0 - 1), Num(0 - 1), One, Zero, Zero>>
Matrices == {ScaleTranslate, MirrorX, QuarterTurn, ShearNeg, NoMatrix}

HasExtent(r) == r.width # Zero /\ r.height # Zero

(***************************************************************************)
(* State.                                                                  *)
(***************************************************************************)
VARIABLES
    rects,   \* the fields x, y, width, height of the caller's two rect objects
    inst,    \* whether each object is a BoundingRect instance or a plain rect-like
    lt, rb, lb, rt,   \* scratch corner points of applyTransform
    minTv, maxTv,     \* scratch vectors of intersect
    mtv,     \* the caller's point passed to intersect as mtv
    last,    \* the most recent call: its name, arguments, the values read and returned
    ncalls,  \* number of calls made so far
    limit    \* number of calls the caller makes in this behaviour

vars == <<rects, inst, lt, rb, lb, rt, minTv, maxTv, mtv, last, ncalls, limit>>

scratch == <<lt, rb, lb, rt, minTv, maxTv>>

NoRect == RectLike(Zero, Zero, Zero, Zero)

\* record of a call: op name, receiver/target t, other/source s, the fields
\* of t and s before the call (a, b; b normalized when intersect normalizes
\* it), the rect-like argument as passed (raw), whether s was a BoundingRect
\* instance (inst), the matrix (m), whether mtv was passed (hasMtv), the
\* boolean returned (ret), and the caller's mtv point before the call (mtv0)
Call(op, t, s, b, raw, m, hasMtv, ret) ==
    [op |-> op, t |-> t, s |-> s, a |-> rects[t], b |-> b, raw |-> raw,
     inst |-> inst[s], m |-> m, hasMtv |-> hasMtv, ret |-> ret, mtv0 |-> mtv]

\* module load: the six scratch points are new Point()
ScratchInit ==
    /\ lt = NewPoint /\ rb = NewPoint /\ lb = NewPoint /\ rt = NewPoint
    /\ minTv = NewPoint /\ maxTv = NewPoint

\* r1 is an instance built by the constructor from a literal of lits; r2 is
\* another such instance or a plain literal of lits; the caller makes n calls
InitFrom(lits, n) ==
    /\ inst \in {f \in [RectIds -> BOOLEAN] : f["r1"]}
    /\ rects \in {f \in [RectIds -> lits \cup {create(l) : l \in lits}] :
                     \A i \in RectIds : inst[i] => f[i] \in {create(l) : l \in lits}}
    /\ ScratchInit
    /\ mtv = NewPoint
    /\ last = [op |-> "none", t |-> "r1", s |-> "r1", a |-> NoRect, b |-> NoRect,
               raw |-> NoRect, inst |-> FALSE, m |-> NoMatrix, hasMtv |-> FALSE,
               ret |-> FALSE, mtv0 |-> NewPoint]
    /\ ncalls = 0
    /\ limit = n

\* either any two rects of the grid and one call on them, or a few rects and
\* a sequence of calls
Init == InitFrom(RectLikes, 1) \/ InitFrom(SeqRectLikes, MaxCalls)

InitSeq == InitFrom(SeqRectLikes, MaxSeqCalls)

(***************************************************************************)
(* Operations.                                                             *)
(***************************************************************************)
\* rects[t] = new BoundingRect(s.x, s.y, s.width, s.height)
New(t, s) ==
    /\ ncalls < limit
    /\ rects' = [rects EXCEPT ![t] =
                     BoundingRect(rects[s].x, rects[s].y, rects[s].width, rects[s].height)]
    /\ inst' = [inst EXCEPT ![t] = TRUE]
    /\ last' = Call("new", t, s, rects[s], rects[s], NoMatrix, FALSE, FALSE)
    /\ ncalls' = ncalls + 1
    /\ UNCHANGED <<scratch, mtv, limit>>

\* rects[t] = BoundingRect.create(rects[s])
Create(t, s) ==
    /\ ncalls < limit
    /\ rects' = [rects EXCEPT ![t] = create(rects[s])]
    /\ inst' = [inst EXCEPT ![t] = TRUE]
    /\ last' = Call("create", t, s, rects[s], rects[s], NoMatrix, FALSE, FALSE)
    /\ ncalls' = ncalls + 1
    /\ UNCHANGED <<scratch, mtv, limit>>

\* rects[i].union(rects[j])
Union(i, j) ==
    /\ ncalls < limit
    /\ inst[i] /\ inst[j]
    /\ rects' = [rects EXCEPT ![i] = union(rects[i], rects[j])]
    /\ last' = Call("union", i, j, rects[j], rects[j], NoMatrix, FALSE, FALSE)
    /\ ncalls' = ncalls + 1
    /\ UNCHANGED <<inst, scratch, mtv, limit>>

\* rects[i].copy(rects[j]), the other rect an instance
Copy(i, j) ==
    /\ ncalls < limit
    /\ inst[i] /\ inst[j]
    /\ rects' = [rects EXCEPT ![i] = copy(rects[i], rects[j])]
    /\ last' = Call("copy", i, j, rects[j], rects[j], NoMatrix, FALSE, FALSE)
    /\ ncalls' = ncalls + 1
    /\ UNCHANGED <<inst, scratch, mtv, limit>>

\* the body of static applyTransform(rects[t], rects[s], m), recorded under
\* the name op with the rect-like raw that m was calculated for
ApplyStep(op, t, s, m, raw) ==
    /\ ncalls < limit
    /\ inst[t] /\ inst[s]
    /\ IF m = NoMatrix
       THEN /\ rects' = IF t # s THEN [rects EXCEPT ![t] = copy(rects[t], rects[s])] ELSE rects
            /\ UNCHANGED <<lt, rb, lb, rt>>
       ELSE IF IsFastPath(m)
       THEN /\ rects' = [rects EXCEPT ![t] = FastPath(rects[s], m)]
            /\ UNCHANGED <<lt, rb, lb, rt>>
       ELSE LET g == GeneralPath(rects[s], m, lt, rb, lb, rt)
            IN  /\ rects' = [rects EXCEPT ![t] = g.rect]
                /\ lt' = g.lt /\ rb' = g.rb /\ lb' = g.lb /\ rt' = g.rt
    /\ last' = Call(op, t, s, rects[s], raw, m, FALSE, FALSE)
    /\ ncalls' = ncalls + 1
    /\ UNCHANGED <<inst, minTv, maxTv, mtv, limit>>

\* BoundingRect.applyTransform(rects[t], rects[s], m)
ApplyTransformStatic(t, s, m) == ApplyStep("applyTransform", t, s, m, NoRect)

\* rects[i].applyTransform(m)
ApplyTransform(i, m) == ApplyStep("applyTransform", i, i, m, NoRect)

\* BoundingRect.applyTransform(rects[t], rects[s], rects[s].calculateTransform(rects[j]))
\* for a source with non-zero extents
ApplyCalculated(t, s, j) ==
    /\ HasExtent(rects[s])
    /\ ApplyStep("applyCalculated", t, s, calculateTransform(rects[s], rects[j]), rects[j])

\* rects[i].intersect(rects[j], mtv), mtv passed when hasMtv; a plain
\* rect-like is normalized first
Intersect(i, j, hasMtv) ==
    LET b == IF inst[j] THEN rects[j] ELSE create(rects[j])
        r == intersect(rects[i], b, hasMtv, minTv, maxTv, mtv)
    IN  /\ ncalls < limit
        /\ inst[i]
        /\ minTv' = r.minTv
        /\ maxTv' = r.maxTv
        /\ mtv' = r.mtv
        /\ last' = Call("intersect", i, j, b, rects[j], NoMatrix, hasMtv, r.ret)
        /\ ncalls' = ncalls + 1
        /\ UNCHANGED <<rects, inst, lt, rb, lb, rt, limit>>

Next ==
    \/ \E t \in RectIds, s \in RectIds : New(t, s)
    \/ \E t \in RectIds, s \in RectIds : Create(t, s)
    \/ \E i \in RectIds, j \in RectIds : Union(i, j)
    \/ \E i \in RectIds, j \in RectIds : Copy(i, j)
    \/ \E t \in RectIds : \E s \in RectIds \ {t}, m \in Matrices :
           ApplyTransformStatic(t, s, m)
    \/ \E i \in RectIds, m \in Matrices : ApplyTransform(i, m)
    \/ \E t \in RectIds, s \in RectIds, j \in RectIds : ApplyCalculated(t, s, j)
    \/ \E i \in RectIds, j \in RectIds, hasMtv \in BOOLEAN : Intersect(i, j, hasMtv)

\* one call on any two rects of the grid, and short sequences of calls
Spec == Init /\ [][Next]_vars

\* longer sequences of calls on a few rects
SeqSpec == InitSeq /\ [][Next]_vars

(***************************************************************************)
(* Reference notions the properties are stated with.                       *)
(***************************************************************************)
NonNeg(r) == Le(Zero, r.width) /\ Le(Zero, r.height)

ApplyOps == {"applyTransform", "applyCalculated"}

\* the closed region a box covers, whatever the signs of its extents
Region(r) ==
    [x0 |-> mathMin(r.x, Add(r.x, r.width)), x1 |-> mathMax(r.x, Add(r.x, r.width)),
     y0 |-> mathMin(r.y, Add(r.y, r.height)), y1 |-> mathMax(r.y, Add(r.y, r.height))]

InRegion(g, px, py) == Le(g.x0, px) /\ Le(px, g.x1) /\ Le(g.y0, py) /\ Le(py, g.y1)

\* two closed regions have a point in common (if they do, a point whose
\* coordinates are left/top edges of the two is common)
SharePoint(g, h) ==
    \E px \in {g.x0, h.x0}, py \in {g.y0, h.y0} : InRegion(g, px, py) /\ InRegion(h, px, py)

Least(S) == CHOOSE v \in S : \A u \in S : Le(v, u)
Greatest(S) == CHOOSE v \in S : \A u \in S : Le(u, v)

\* bounding box of the four corners of r mapped by m
CornerBox(r, m) ==
    LET cs == {PointTransform(Point(cx, cy), m) :
                  cx \in {r.x, Add(r.x, r.width)}, cy \in {r.y, Add(r.y, r.height)}}
        xs == {c.x : c \in cs}
        ys == {c.y : c \in cs}
    IN  RectLike(Least(xs), Least(ys),
                 Sub(Greatest(xs), Least(xs)), Sub(Greatest(ys), Least(ys)))


(***************************************************************************)
(* Properties.                                                             *)
(***************************************************************************)
\* C1: after construction and after every union, applyTransform and copy,
\* every BoundingRect has width >= 0 and height >= 0.
C1_ExtentsNonNegative == \A i \in RectIds : inst[i] => NonNeg(rects[i])

\* C2: new BoundingRect(x, y, w, h) and create({x, y, width: w, height: h})
\* give a rect with non-negative extents covering the same points as the
\* unnormalized box: x-interval [min(x, x+w), max(x, x+w)], y-interval
\* [min(y, y+h), max(y, y+h)].
C2_ConstructorNormalizes ==
    last.op \in {"new", "create"} =>
        LET r == rects[last.t]
            l == last.raw
        IN  /\ NonNeg(r)
            /\ r.x = mathMin(l.x, Add(l.x, l.width))
            /\ Add(r.x, r.width) = mathMax(l.x, Add(l.x, l.width))
            /\ r.y = mathMin(l.y, Add(l.y, l.height))
            /\ Add(r.y, r.height) = mathMax(l.y, Add(l.y, l.height))

\* a rect built from a negative width and a negative height
C2_Witness ==
    /\ last.op \in {"new", "create"}
    /\ Lt(last.raw.width, Zero) /\ Lt(last.raw.height, Zero)
    /\ rects[last.t].x # last.raw.x /\ rects[last.t].y # last.raw.y

\* C3: for rects with non-negative extents, a.union(other) leaves a the
\* smallest axis-aligned rectangle containing the original a and other
\* (min of left and top edges, max of right and bottom edges, taken from the
\* values before the call), leaves other unchanged, and a.union(a) leaves a
\* unchanged.
C3_UnionIsSmallestBox ==
    (last.op = "union" /\ NonNeg(last.a) /\ NonNeg(last.b)) =>
        LET r == rects[last.t]
            a == last.a
            o == last.b
        IN  /\ r.x = mathMin(a.x, o.x)
            /\ r.y = mathMin(a.y, o.y)
            /\ Add(r.x, r.width) = mathMax(Add(a.x, a.width), Add(o.x, o.width))
            /\ Add(r.y, r.height) = mathMax(Add(a.y, a.height), Add(o.y, o.height))
            /\ (last.s # last.t => rects[last.s] = o)
            /\ (last.s = last.t => r = a)

\* a union with a distinct rect that moved the origin and grew both extents
C3_Witness ==
    /\ last.op = "union" /\ last.s # last.t
    /\ Lt(last.b.x, last.a.x) /\ Lt(last.b.y, last.a.y)
    /\ Lt(last.a.width, rects[last.t].width) /\ Lt(last.b.width, rects[last.t].width)
    /\ Lt(last.a.height, rects[last.t].height)

\* C4: for every matrix m given and every source with non-negative extents,
\* static applyTransform(target, source, m) leaves target equal to the
\* bounding box of the four corners of source mapped by m, whether or not
\* target is the same instance as source.
C4_ApplyTransformIsCornerBox ==
    (last.op \in ApplyOps /\ last.m # NoMatrix /\ NonNeg(last.b)) =>
        rects[last.t] = CornerBox(last.b, last.m)

\* C5: for every pure scale+translate matrix [sx,0,0,sy,tx,ty] and every
\* rect, the fast path writes the same four fields as the general 4-corner
\* path would.
C5_FastPathEqualsGeneralPath ==
    (last.op \in ApplyOps /\ last.m # NoMatrix
        /\ At(last.m, 1) = Zero /\ At(last.m, 2) = Zero) =>
        /\ rects[last.t] = FastPath(last.b, last.m)
        /\ FastPath(last.b, last.m) = GeneralPath(last.b, last.m, lt, rb, lb, rt).rect

\* C6: for a and b with non-zero width and height,
\* applyTransform(result, a, a.calculateTransform(b)) leaves result with the
\* x, y, width and height of b.
C6_CalculateTransformRoundTrip ==
    (last.op = "applyCalculated" /\ HasExtent(last.b) /\ HasExtent(last.raw)) =>
        rects[last.t] = last.raw

\* a round trip that scaled both extents by different factors and moved the origin
C6_Witness ==
    /\ last.op = "applyCalculated" /\ HasExtent(last.b) /\ HasExtent(last.raw)
    /\ last.raw.width # last.b.width /\ last.raw.height # last.b.height
    /\ Div(last.raw.width, last.b.width) # Div(last.raw.height, last.b.height)
    /\ last.raw.x # last.b.x
    /\ last.b.x # Zero

C8_MtvLeastPenetration ==
    (last.op = "intersect" /\ last.hasMtv /\ NonNeg(last.a) /\ NonNeg(last.b)
        /\ SharePoint(Region(last.a), Region(last.b))) =>
        LET g == Region(last.a)
            h == Region(last.b)
            dx == mathMin(Abs(Sub(g.x1, h.x0)), Abs(Sub(h.x1, g.x0)))
            dy == mathMin(Abs(Sub(g.y1, h.y0)), Abs(Sub(h.y1, g.y0)))
        IN  /\ last.ret
            /\ mtv.x = Zero \/ mtv.y = Zero
            /\ Add(Abs(mtv.x), Abs(mtv.y)) = mathMin(dx, dy)

\* C9: for a and b with non-negative extents that do not overlap,
\* a.intersect(b, mtv) returns false and leaves mtv on the separated axis
\* with the larger gap (x on a tie), its magnitude that gap, negative when
\* b lies on the larger-coordinate side of a and positive otherwise.
C9_MtvSeparationGap ==
    (last.op = "intersect" /\ last.hasMtv /\ NonNeg(last.a) /\ NonNeg(last.b)
        /\ ~SharePoint(Region(last.a), Region(last.b))) =>
        LET g == Region(last.a)
            h == Region(last.b)
            bRight == Lt(g.x1, h.x0)
            bLeft == Lt(h.x1, g.x0)
            bBelow == Lt(g.y1, h.y0)
            bAbove == Lt(h.y1, g.y0)
            gapX == IF bRight THEN Sub(h.x0, g.x1) ELSE IF bLeft THEN Sub(g.x0, h.x1) ELSE Zero
            gapY == IF bBelow THEN Sub(h.y0, g.y1) ELSE IF bAbove THEN Sub(g.y0, h.y1) ELSE Zero
            onX == (bRight \/ bLeft) /\ Le(gapY, gapX)
        IN  /\ ~last.ret
            /\ mtv = IF onX THEN Point(IF bRight THEN Neg(gapX) ELSE gapX, Zero)
                            ELSE Point(Zero, IF bBelow THEN Neg(gapY) ELSE gapY)

\* C10: whatever calls came before, the result and the mtv of
\* a.intersect(b, mtv) and the fields written by applyTransform are those the
\* same call produces when the scratch points are fresh.
C10_ScratchDoesNotLeak ==
    /\ (last.op = "intersect" /\ last.hasMtv) =>
           LET f == intersect(last.a, last.b, TRUE, NewPoint, NewPoint, last.mtv0)
           IN  mtv = f.mtv /\ last.ret = f.ret
    /\ (last.op \in ApplyOps /\ last.m # NoMatrix /\ ~IsFastPath(last.m)) =>
           rects[last.t] =
               GeneralPath(last.b, last.m, NewPoint, NewPoint, NewPoint, NewPoint).rect

====
